---- MODULE Spec2Model ----
(***************************************************************************)
(* Model of zktraffic/base/server_message.py: the opcode registry built by *)
(* the ServerMessageType metaclass, the reply decoder                      *)
(* ServerMessage.from_payload / handler_for, the per-variant with_params   *)
(* decoders and the name property.                                         *)
(*                                                                         *)
(* Payloads are byte sequences (0..255); a Python index i is position i+1  *)
(* of the sequence.  32-bit integers are decoded big-endian two's          *)
(* complement; a 64-bit integer is kept as its 8 big-endian bytes.         *)
(***************************************************************************)
EXTENDS Integers, Sequences, FiniteSets, TLC

VARIABLES pc, next_stmt, classes, TYPES, declared,
          requests_xids, EVENT_TYPES, call, label, matched

vars == <<pc, next_stmt, classes, TYPES, declared,
          requests_xids, EVENT_TYPES, call, label, matched>>

\* ------------------------------------------------------------- bounds
\* Largest number of pending requests the caller keeps in the table.
MaxPending == 2

\* ---------------------------------------------------------- constants
None == "None"
WATCH_XID == -1
PING_XID == -2
INT_STRUCT_size == 4
MaxStrLen == 1024
DeserializationError == "DeserializationError"
StringTooLong == "StringTooLong"
ValueError == "ValueError"
\* the two DeserializationError messages from_payload raises itself
BadReplyLength == "DeserializationError: Bad reply length"
NoHandler == "DeserializationError: No handler for xid"

\* OpCodes.* are kept symbolic: the source only uses them by name.
OpCodes == {"CONNECT", "PING", "SETAUTH", "GETDATA", "EXISTS", "SYNC",
            "SETDATA", "DELETE", "GETCHILDREN", "GETCHILDREN2", "CREATE",
            "CREATE2", "SETWATCHES", "MULTI", "GETACL"}

\* ------------------------------------------------- big-endian encoding
Byte == 0..255

\* struct.pack("!i", v)
EncInt(v) ==
  LET v1 == v \div 256
      v2 == v1 \div 256
      v3 == v2 \div 256
  IN <<v3 % 256, v2 % 256, v1 % 256, v % 256>>

\* struct.pack("!q", v), for v in the 32-bit range
LongOf(v) ==
  (IF v < 0 THEN <<255, 255, 255, 255>> ELSE <<0, 0, 0, 0>>) \o EncInt(v)

\* a length-prefixed string
EncStr(s) == EncInt(Len(s)) \o s

\* ------------------------------------------------- primitive decoders
Fail(e) == [ok |-> FALSE, exc |-> e]
Ok(v, o) == [ok |-> TRUE, val |-> v, offset |-> o]

Has(data, offset, n) == offset >= 0 /\ offset + n <= Len(data)

\* the signed 32-bit integer at Python offset `offset`
IntAt(data, offset) ==
  LET b0 == data[offset + 1]
  IN (IF b0 >= 128 THEN b0 - 256 ELSE b0) * 16777216
       + data[offset + 2] * 65536 + data[offset + 3] * 256 + data[offset + 4]

read_number(data, offset) ==
  IF Has(data, offset, 4)
    THEN Ok(IntAt(data, offset), offset + INT_STRUCT_size)
    ELSE Fail(DeserializationError)

read_bool(data, offset) ==
  IF Has(data, offset, 1)
    THEN Ok(data[offset + 1] # 0, offset + 1)
    ELSE Fail(DeserializationError)

\* "!iqi": (xid, zxid, err)
read_reply_header(data, offset) ==
  IF Has(data, offset, 16)
    THEN Ok(<<IntAt(data, offset),
              SubSeq(data, offset + 5, offset + 12),
              IntAt(data, offset + 12)>>, offset + 16)
    ELSE Fail(DeserializationError)

\* "!ii"
read_int_int(data, offset) ==
  IF Has(data, offset, 8)
    THEN Ok(<<IntAt(data, offset), IntAt(data, offset + 4)>>, offset + 8)
    ELSE Fail(DeserializationError)

\* "!iiq"
read_int_int_long(data, offset) ==
  IF Has(data, offset, 16)
    THEN Ok(<<IntAt(data, offset), IntAt(data, offset + 4),
              SubSeq(data, offset + 9, offset + 16)>>, offset + 16)
    ELSE Fail(DeserializationError)

\* "!i?i"
read_int_bool_int(data, offset) ==
  IF Has(data, offset, 9)
    THEN Ok(<<IntAt(data, offset), data[offset + 5] # 0,
              IntAt(data, offset + 5)>>, offset + 9)
    ELSE Fail(DeserializationError)

\* a length-prefixed string with a maximum-length bound
read_string(data, offset) ==
  LET n == read_number(data, offset)
  IN IF ~n.ok THEN n
     ELSE IF n.val > MaxStrLen THEN Fail(StringTooLong)
     ELSE IF n.val < 0 \/ ~Has(data, n.offset, n.val)
       THEN Fail(DeserializationError)
     ELSE Ok(SubSeq(data, n.offset + 1, n.offset + n.val), n.offset + n.val)

\* a length-prefixed opaque buffer
read_buffer(data, offset) ==
  LET n == read_number(data, offset)
  IN IF ~n.ok THEN n
     ELSE IF n.val < 0 \/ ~Has(data, n.offset, n.val)
       THEN Fail(DeserializationError)
     ELSE Ok(SubSeq(data, n.offset + 1, n.offset + n.val), n.offset + n.val)

MultiHeader(first_opcode, done, err) ==
  [type |-> first_opcode, done |-> done, err |-> err]

\* ------------------------------------------------ classes and registry
Absent == "<absent>"

\* The class statements of the module, in source order: the class name, its
\* base, the OPCODE its body sets (Absent when it sets none) and the
\* methods its body defines.
Stmt(n, b, o, d) == [name |-> n, base |-> b, OPCODE |-> o, defines |-> d]

ClassStatements ==
  << Stmt("ClientMessageType", "object", Absent, {}),
     Stmt("ServerMessage", "ClientMessageType", Absent,
          {"__init__", "name", "with_params"}),
     Stmt("WatchEvent", "ServerMessage", None,
          {"__init__", "name", "with_params"}),
     Stmt("Reply", "ServerMessage", Absent, {}),
     Stmt("ConnectReply", "Reply", "CONNECT",
          {"__init__", "name", "with_params"}),
     Stmt("PingReply", "Reply", "PING", {}),
     Stmt("AuthReply", "Reply", "SETAUTH", {}),
     Stmt("GetDataReply", "Reply", "GETDATA", {}),
     Stmt("ExistsReply", "Reply", "EXISTS", {}),
     Stmt("SyncReply", "Reply", "SYNC", {}),
     Stmt("SetDataReply", "Reply", "SETDATA", {}),
     Stmt("DeleteReply", "Reply", "DELETE", {}),
     Stmt("GetChildrenReply", "Reply", "GETCHILDREN",
          {"__init__", "with_params"}),
     Stmt("GetChildren2Reply", "GetChildrenReply", "GETCHILDREN2", {}),
     Stmt("CreateReply", "Reply", "CREATE", {"with_params"}),
     Stmt("Create2Reply", "CreateReply", "CREATE2", {}),
     Stmt("SetWatchesReply", "Reply", "SETWATCHES", {}),
     Stmt("MultiReply", "Reply", "MULTI", {"__init__", "with_params"}) >>

\* Further variants a module may declare while the registry is built: one
\* that sets an opcode a source variant uses and one that inherits its
\* base's opcode.
ExtraStatements ==
  { Stmt("PingReply2", "Reply", "PING", {}),
    Stmt("SubCreateReply", "CreateReply", Absent, {}) }

\* obj.OPCODE of the class being created: its own, else its base's, else
\* the metaclass attribute (None).
OpcodeOf(base, dct_opcode, cl) ==
  IF dct_opcode # Absent THEN dct_opcode
  ELSE IF base \in DOMAIN cl THEN cl[base].OPCODE
  ELSE None

\* ServerMessageType.__new__ without the duplicate check: a later variant
\* takes over the opcode
ServerMessageType_new_overwrite(stmt, cl, types) ==
  LET opcode == OpcodeOf(stmt.base, stmt.OPCODE, cl)
      obj == [base |-> stmt.base, OPCODE |-> opcode, defines |-> stmt.defines]
  IN [raised |-> None, OPCODE |-> opcode,
      classes |-> (stmt.name :> obj) @@ cl,
      TYPES |-> IF opcode # None
                  THEN (opcode :> stmt.name) @@ types
                  ELSE types]

\* ServerMessageType.__new__
ServerMessageType_new(stmt, cl, types) ==
  LET opcode == OpcodeOf(stmt.base, stmt.OPCODE, cl)
      obj == [base |-> stmt.base, OPCODE |-> opcode, defines |-> stmt.defines]
  IN IF opcode \in DOMAIN types
       THEN [raised |-> ValueError, OPCODE |-> opcode,
             classes |-> cl, TYPES |-> types]
       ELSE [raised |-> None, OPCODE |-> opcode,
             classes |-> (stmt.name :> obj) @@ cl,
             TYPES |-> IF opcode # None
                         THEN (opcode :> stmt.name) @@ types
                         ELSE types]

\* ServerMessageType.get
ServerMessageType_get(key, default) ==
  IF key \in DOMAIN TYPES THEN TYPES[key] ELSE default

\* attribute lookup along the base chain: the class that defines `attr`
RECURSIVE Lookup(_, _)
Lookup(cls, attr) ==
  IF cls \notin DOMAIN classes THEN None
  ELSE IF attr \in classes[cls].defines THEN cls
  ELSE Lookup(classes[cls].base, attr)

\* ------------------------------------------------------ constructors
Raise(e) == [ok |-> FALSE, exc |-> e]
Return(m) == [ok |-> TRUE, msg |-> m]

\* the bytes of the literal "path-too-long"
PathTooLong == <<112, 97, 116, 104, 45, 116, 111, 111, 45, 108, 111, 110, 103>>

\* ServerMessage.__init__
ServerMessage_init(cls, xid, zxid, error, path, client, server) ==
  [cls |-> cls, timestamp |-> 0, auth |-> "", xid |-> xid, zxid |-> zxid,
   error |-> error, path |-> path, client |-> client, server |-> server]

\* WatchEvent.__init__
WatchEvent_init(cls, event_type, state, path, client, server) ==
  [event_type |-> event_type, state |-> state]
    @@ ServerMessage_init(cls, -1, LongOf(-1), 0, path, client, server)

\* ConnectReply.__init__ passing the sentinels of WatchEvent.__init__
ConnectReply_init_minus1(cls, protocol, timeout, session, passwd, readonly, client, server) ==
  [protocol |-> protocol, timeout |-> timeout, session |-> session,
   passwd |-> passwd, readonly |-> readonly]
    @@ ServerMessage_init(cls, -1, LongOf(-1), 0, <<>>, client, server)

\* ConnectReply.__init__
ConnectReply_init(cls, protocol, timeout, session, passwd, readonly, client, server) ==
  [protocol |-> protocol, timeout |-> timeout, session |-> session,
   passwd |-> passwd, readonly |-> readonly]
    @@ ServerMessage_init(cls, 0, LongOf(-1), 0, <<>>, client, server)

\* GetChildrenReply.__init__
GetChildrenReply_init(cls, xid, zxid, error, count, client, server) ==
  [count |-> count]
    @@ ServerMessage_init(cls, xid, zxid, error, <<>>, client, server)

\* MultiReply.__init__
MultiReply_init(cls, xid, zxid, error, client, first_header, server) ==
  [headers |-> <<first_header>>]
    @@ ServerMessage_init(cls, xid, zxid, error, <<>>, client, server)

\* ----------------------------------------------------- variant decoders
\* ServerMessage.with_params
ServerMessage_with_params(cls, xid, zxid, error, data, offset, client, server) ==
  Return(ServerMessage_init(cls, xid, zxid, error, <<>>, client, server))

\* WatchEvent.with_params
WatchEvent_with_params(cls, xid, zxid, error, data, offset, client, server) ==
  LET ii == read_int_int(data, offset)
      s == read_string(data, ii.offset)
  IN IF ~ii.ok THEN Raise(ii.exc)
     ELSE IF s.ok
       THEN Return(WatchEvent_init(cls, ii.val[1], ii.val[2], s.val,
                                   client, server))
     ELSE IF s.exc = StringTooLong
       THEN Return(WatchEvent_init(cls, ii.val[1], ii.val[2], PathTooLong,
                                   client, server))
     ELSE Raise(s.exc)

\* ConnectReply.with_params
ConnectReply_with_params(cls, xid, zxid, error, data, offset, client, server) ==
  LET iil == read_int_int_long(data, INT_STRUCT_size)
      passwd == read_buffer(data, iil.offset)
      readonly == read_bool(data, passwd.offset)
  IN IF ~iil.ok THEN Raise(iil.exc)
     ELSE IF ~passwd.ok THEN Raise(passwd.exc)
     ELSE IF ~readonly.ok THEN Raise(readonly.exc)
     ELSE Return(ConnectReply_init(cls, iil.val[1], iil.val[2], iil.val[3],
                                   passwd.val, readonly.val, client, server))

\* GetChildrenReply.with_params reading the count whatever the error is
GetChildrenReply_with_params_read(cls, xid, zxid, error, data, offset, client, server) ==
  LET n == read_number(data, offset)
  IN IF ~n.ok THEN Raise(n.exc)
     ELSE Return(GetChildrenReply_init(cls, xid, zxid, error, n.val,
                                       client, server))

\* GetChildrenReply.with_params
GetChildrenReply_with_params(cls, xid, zxid, error, data, offset, client, server) ==
  LET n == IF error = 0 THEN read_number(data, offset) ELSE Ok(0, 0)
  IN IF ~n.ok THEN Raise(n.exc)
     ELSE Return(GetChildrenReply_init(cls, xid, zxid, error, n.val,
                                       client, server))

\* CreateReply.with_params without the except clause
CreateReply_with_params_raise(cls, xid, zxid, error, data, offset, client, server) ==
  LET s == IF error = 0 THEN read_string(data, offset) ELSE Ok(<<>>, offset)
  IN IF s.ok
       THEN Return(ServerMessage_init(cls, xid, zxid, error, s.val,
                                      client, server))
     ELSE Raise(s.exc)

\* CreateReply.with_params
CreateReply_with_params(cls, xid, zxid, error, data, offset, client, server) ==
  LET s == IF error = 0 THEN read_string(data, offset) ELSE Ok(<<>>, offset)
  IN IF s.ok
       THEN Return(ServerMessage_init(cls, xid, zxid, error, s.val,
                                      client, server))
     ELSE IF s.exc = StringTooLong
       THEN Return(ServerMessage_init(cls, xid, zxid, error, PathTooLong,
                                      client, server))
     ELSE Raise(s.exc)

\* MultiReply.with_params
MultiReply_with_params(cls, xid, zxid, error, data, offset, client, server) ==
  LET h == read_int_bool_int(data, offset)
  IN IF ~h.ok THEN Raise(h.exc)
     ELSE Return(MultiReply_init(cls, xid, zxid, error, client,
                   MultiHeader(h.val[1], h.val[2], h.val[3]), server))

\* handler.with_params(...): the method the handler class inherits
with_params(cls, xid, zxid, error, data, offset, client, server) ==
  LET owner == Lookup(cls, "with_params")
  IN CASE owner = "WatchEvent" ->
            WatchEvent_with_params(cls, xid, zxid, error, data, offset, client, server)
       [] owner = "ConnectReply" ->
            ConnectReply_with_params(cls, xid, zxid, error, data, offset, client, server)
       [] owner = "GetChildrenReply" ->
            GetChildrenReply_with_params(cls, xid, zxid, error, data, offset, client, server)
       [] owner = "CreateReply" ->
            CreateReply_with_params(cls, xid, zxid, error, data, offset, client, server)
       [] owner = "MultiReply" ->
            MultiReply_with_params(cls, xid, zxid, error, data, offset, client, server)
       [] OTHER ->
            ServerMessage_with_params(cls, xid, zxid, error, data, offset, client, server)

\* ------------------------------------------------ correlation resolution
\* a pop that empties the dict
Pop_clear(d, key) ==
  [val |-> IF key \in DOMAIN d THEN d[key] ELSE None,
   dict |-> [k \in {} |-> None]]

\* dict.pop(key, None): the value and the dict without the key
Pop(d, key) ==
  [val |-> IF key \in DOMAIN d THEN d[key] ELSE None,
   dict |-> [k \in DOMAIN d \ {key} |-> d[k]]]

\* ServerMessage.handler_for: the handler class (or None), the table as the
\* call leaves it, and the request type it popped (None when it popped
\* nothing)
Resolved(handler, table, request_type) ==
  [handler |-> handler, table |-> table, request_type |-> request_type]

\* handler_for reading the entry without removing it (get, not pop)
handler_for_get(xid, table) ==
  IF xid = WATCH_XID THEN Resolved("WatchEvent", table, None)
  ELSE IF xid = PING_XID THEN Resolved("PingReply", table, None)
  ELSE LET p == Pop(table, xid)
       IN Resolved(ServerMessageType_get(p.val, None), table, p.val)

\* handler_for looking the xid up before the sentinel tests
handler_for_lookup_first(xid, table) ==
  LET p == Pop(table, xid)
  IN IF p.val # None
       THEN Resolved(ServerMessageType_get(p.val, None), p.dict, p.val)
     ELSE IF xid = WATCH_XID THEN Resolved("WatchEvent", table, None)
     ELSE IF xid = PING_XID THEN Resolved("PingReply", table, None)
     ELSE Resolved(None, p.dict, p.val)

\* handler_for falling back to the plain Reply when nothing resolves
handler_for_guess(xid, table) ==
  IF xid = WATCH_XID THEN Resolved("WatchEvent", table, None)
  ELSE IF xid = PING_XID THEN Resolved("PingReply", table, None)
  ELSE LET p == Pop(table, xid)
       IN Resolved(ServerMessageType_get(p.val, "Reply"), p.dict, p.val)

handler_for(xid, table) ==
  IF xid = WATCH_XID THEN Resolved("WatchEvent", table, None)
  ELSE IF xid = PING_XID THEN Resolved("PingReply", table, None)
  ELSE LET p == Pop(table, xid)
       IN Resolved(ServerMessageType_get(p.val, None), p.dict, p.val)

\* ServerMessage.from_payload: the outcome (a message or the exception
\* raised), the statement the call ended at, the xid of the decoded header,
\* what handler_for resolved, and the table as the call leaves it
Outcome(r, stage, xid, h, table) ==
  r @@ [stage |-> stage, xid |-> xid, handler |-> h.handler,
        request_type |-> h.request_type, table |-> table]

NotResolved == [handler |-> None, request_type |-> None]

\* from_payload rejecting only a negative length
from_payload_lt(data, client, server, table) ==
  LET size == read_number(data, 0)
      hdr == read_reply_header(data, size.offset)
      xid == hdr.val[1]
      h == handler_for(xid, table)
      m == with_params(h.handler, xid, hdr.val[2], hdr.val[3],
                       data, hdr.offset, client, server)
  IN IF ~size.ok
       THEN Outcome(Raise(size.exc), "read_number", None, NotResolved, table)
     ELSE IF size.val < 0
       THEN Outcome(Raise(BadReplyLength), "reply_size", None, NotResolved, table)
     ELSE IF ~hdr.ok
       THEN Outcome(Raise(hdr.exc), "read_reply_header", None, NotResolved, table)
     ELSE IF h.handler # None
       THEN Outcome(m, "with_params", xid, h, h.table)
     ELSE Outcome(Raise(NoHandler), "handler_for", xid, h, h.table)

from_payload(data, client, server, table) ==
  LET size == read_number(data, 0)
      hdr == read_reply_header(data, size.offset)
      xid == hdr.val[1]
      h == handler_for(xid, table)
      m == with_params(h.handler, xid, hdr.val[2], hdr.val[3],
                       data, hdr.offset, client, server)
  IN IF ~size.ok
       THEN Outcome(Raise(size.exc), "read_number", None, NotResolved, table)
     ELSE IF size.val <= 0
       THEN Outcome(Raise(BadReplyLength), "reply_size", None, NotResolved, table)
     ELSE IF ~hdr.ok
       THEN Outcome(Raise(hdr.exc), "read_reply_header", None, NotResolved, table)
     ELSE IF h.handler # None
       THEN Outcome(m, "with_params", xid, h, h.table)
     ELSE Outcome(Raise(NoHandler), "handler_for", xid, h, h.table)

\* --------------------------------------------------------------- naming
\* ServerMessage.name
ServerMessage_name(msg) ==
  (IF msg.error = 0 THEN "" ELSE "Failed") \o msg.cls

\* WatchEvent.name: EVENT_TYPES is a defaultdict, so reading a missing key
\* stores the default under it
WatchEvent_name(msg, event_types) ==
  IF msg.event_type \in DOMAIN event_types
    THEN [label |-> event_types[msg.event_type], EVENT_TYPES |-> event_types]
    ELSE [label |-> "UnknownWatchEvent",
          EVENT_TYPES |-> (msg.event_type :> "UnknownWatchEvent") @@ event_types]

\* ConnectReply.name testing timeout >= 0
ConnectReply_name_ge(msg) ==
  IF msg.timeout >= 0 THEN ServerMessage_name(msg) ELSE "SessionExpiration"

\* ConnectReply.name
ConnectReply_name(msg) ==
  IF msg.timeout > 0 THEN ServerMessage_name(msg) ELSE "SessionExpiration"

\* msg.name: the property the message's class inherits
name(msg, event_types) ==
  LET owner == Lookup(msg.cls, "name")
  IN CASE owner = "WatchEvent" -> WatchEvent_name(msg, event_types)
       [] owner = "ConnectReply" ->
            [label |-> ConnectReply_name(msg), EVENT_TYPES |-> event_types]
       [] OTHER ->
            [label |-> ServerMessage_name(msg), EVENT_TYPES |-> event_types]

\* --------------------------------------------------------------- inputs
Clients == {"10.0.0.1:5000"}
Servers == {"10.0.0.2:2181"}

\* transaction ids the caller records requests under, and the opcodes it
\* records ("GETACL" has no variant in the registry)
Xids == {PING_XID, WATCH_XID, 0, 1}
ReqOpCodes == {"CONNECT", "GETDATA", "GETCHILDREN", "GETCHILDREN2",
               "CREATE", "MULTI", "GETACL"}

Frame(size, rest) == EncInt(size) \o rest
Header(xid, zxid, err) == EncInt(xid) \o LongOf(zxid) \o EncInt(err)

\* what follows the reply header
Bodies ==
  { <<>>,
    <<0, 0>>,
    EncInt(3),
    EncStr(<<47, 97>>),
    EncInt(MaxStrLen + 1),
    EncInt(2) \o EncInt(3) \o EncStr(<<47, 97>>),
    EncInt(999) \o EncInt(3) \o EncInt(MaxStrLen + 1) \o <<47>>,
    EncInt(1) \o <<1>> \o EncInt(0) }

ReplyPayloads ==
  { Frame(20, Header(x, 7, e) \o b) : x \in Xids, e \in {0, -101}, b \in Bodies }

\* a connection-handshake reply: no reply header
ConnectBody(timeout, readonly) ==
  EncInt(0) \o EncInt(timeout) \o LongOf(77) \o EncInt(1) \o <<9>> \o readonly

ConnectPayloads ==
  { Frame(37, ConnectBody(t, r)) : t \in {0, 30000, -1}, r \in {<<1>>, <<>>} }

BadPayloads ==
  { <<0, 0>>, Frame(20, <<0, 0, 0>>) }
    \cup { Frame(n, Header(x, 7, 0) \o EncStr(<<47, 97>>)) :
             n \in {0, -1}, x \in {WATCH_XID, 1} }

Payloads == ReplyPayloads \cup ConnectPayloads \cup BadPayloads

\* ---------------------------------------------------------------- state
NoCall == [ok |-> FALSE, exc |-> None, stage |-> None, xid |-> None,
           handler |-> None, request_type |-> None, data |-> <<>>]

Init ==
  /\ pc = "load"
  /\ next_stmt = 1
  /\ classes = [c \in {} |-> None]
  /\ TYPES = [o \in {} |-> None]
  /\ declared = [name |-> None, OPCODE |-> None, raised |-> None]
  /\ requests_xids = [x \in {} |-> None]
  /\ EVENT_TYPES = (-1 :> "None") @@ (1 :> "NodeCreated") @@ (2 :> "NodeDeleted")
                     @@ (3 :> "NodeDataChanged") @@ (4 :> "NodeChildrenChanged")
  /\ call = NoCall
  /\ label = None
  /\ matched = {}

\* a ValueError raised by a class statement ends the import of the module
\* the next class statement of the module
LoadModule ==
  /\ pc = "load"
  /\ next_stmt <= Len(ClassStatements)
  /\ LET r == ServerMessageType_new(ClassStatements[next_stmt], classes, TYPES)
     IN /\ classes' = r.classes
        /\ TYPES' = r.TYPES
        /\ declared' = [name |-> ClassStatements[next_stmt].name,
                        OPCODE |-> r.OPCODE, raised |-> r.raised]
        /\ IF r.raised # None
             THEN pc' = "aborted" /\ UNCHANGED next_stmt
             ELSE /\ next_stmt' = next_stmt + 1
                  /\ pc' = IF next_stmt = Len(ClassStatements)
                             THEN "idle" ELSE "load"
  /\ UNCHANGED <<requests_xids, EVENT_TYPES, call, label, matched>>

\* another variant declared while the registry is built
DeclareVariant(stmt) ==
  /\ pc = "load"
  /\ stmt.base \in DOMAIN classes
  /\ stmt.name \notin DOMAIN classes
  /\ LET r == ServerMessageType_new(stmt, classes, TYPES)
     IN /\ classes' = r.classes
        /\ TYPES' = r.TYPES
        /\ declared' = [name |-> stmt.name, OPCODE |-> r.OPCODE,
                        raised |-> r.raised]
        /\ pc' = IF r.raised # None THEN "aborted" ELSE "load"
  /\ UNCHANGED <<next_stmt, requests_xids, EVENT_TYPES, call, label, matched>>

\* the caller records a request it has seen: requests_xids[xid] = opcode
RecordRequest(xid, opcode) ==
  /\ pc = "idle"
  /\ Cardinality(DOMAIN requests_xids \cup {xid}) <= MaxPending
  /\ requests_xids' = (xid :> opcode) @@ requests_xids
  /\ matched' = matched \ {xid}
  /\ UNCHANGED <<pc, next_stmt, classes, TYPES, declared, EVENT_TYPES,
                 call, label>>

\* the caller decodes one payload: ServerMessage.from_payload
FromPayload(data, client, server) ==
  /\ pc = "idle"
  /\ LET r == from_payload(data, client, server, requests_xids)
     IN /\ call' = [data |-> data] @@ [k \in DOMAIN r \ {"table"} |-> r[k]]
        /\ requests_xids' = r.table
        /\ matched' = IF r.ok /\ r.xid \notin {WATCH_XID, PING_XID}
                        THEN matched \cup {r.xid} ELSE matched
  /\ pc' = "decoded"
  /\ UNCHANGED <<next_stmt, classes, TYPES, declared, EVENT_TYPES, label>>

\* the caller reads the name of the message it got
Name ==
  /\ pc = "decoded"
  /\ call.ok
  /\ LET r == name(call.msg, EVENT_TYPES)
     IN /\ label' = r.label
        /\ EVENT_TYPES' = r.EVENT_TYPES
  /\ pc' = "named"
  /\ UNCHANGED <<next_stmt, classes, TYPES, declared, requests_xids, call,
                 matched>>

\* the caller is done with the message (or the error) and takes the next
\* payload
Discard ==
  /\ pc \in {"decoded", "named"}
  /\ pc' = "idle"
  /\ call' = NoCall
  /\ label' = None
  /\ UNCHANGED <<next_stmt, classes, TYPES, declared, requests_xids,
                 EVENT_TYPES, matched>>

Next ==
  \/ LoadModule
  \/ \E stmt \in ExtraStatements : DeclareVariant(stmt)
  \/ \E xid \in Xids, opcode \in ReqOpCodes : RecordRequest(xid, opcode)
  \/ \E data \in Payloads, client \in Clients, server \in Servers :
       FromPayload(data, client, server)
  \/ Name
  \/ Discard

Spec == Init /\ [][Next]_vars

\* ======================================================== properties
Sentinels == {WATCH_XID, PING_XID}

\* a step that is one from_payload call
FromPayloadStep == pc = "idle" /\ pc' = "decoded"

\* the payload has a positive length prefix and a whole reply header
HeaderRead(data) ==
  /\ read_number(data, 0).ok
  /\ read_number(data, 0).val > 0
  /\ read_reply_header(data, INT_STRUCT_size).ok

\* (xid, zxid, err) of the payload's reply header
HeaderOf(data) == read_reply_header(data, INT_STRUCT_size).val

\* the table without the entry under xid
Without(table, xid) == [k \in DOMAIN table \ {xid} |-> table[k]]

\* C1: for a transaction id that is no sentinel, a call that decodes a reply
\* with that xid leaves the xid absent from the table, and as long as the
\* caller records no new request under it every later call with that xid
\* fails instead of returning a message (matched holds the xids matched
\* since they were last recorded).
C1_MatchedAtMostOnce ==
  /\ [](matched \cap DOMAIN requests_xids = {})
  /\ [][FromPayloadStep /\ call'.ok /\ call'.xid \notin Sentinels
          => call'.xid \notin DOMAIN requests_xids']_vars
  /\ [][FromPayloadStep /\ HeaderRead(call'.data)
          /\ HeaderOf(call'.data)[1] \in matched
          => ~call'.ok /\ call'.exc = NoHandler]_vars

C1_Witness ==
  /\ pc = "decoded"
  /\ call.stage = "handler_for"
  /\ call.exc = NoHandler
  /\ call.xid \in matched

\* C2: a header xid equal to WATCH_XID always resolves to WatchEvent and one
\* equal to PING_XID to PingReply, whatever the table holds (also an entry
\* under the sentinel itself); nothing is popped and the table is unchanged.
C2_SentinelHandlers ==
  [][FromPayloadStep /\ HeaderRead(call'.data)
       /\ HeaderOf(call'.data)[1] \in Sentinels
       => /\ call'.handler = IF HeaderOf(call'.data)[1] = WATCH_XID
                               THEN "WatchEvent" ELSE "PingReply"
          /\ call'.request_type = None
          /\ requests_xids' = requests_xids]_vars

C2_Witness ==
  /\ pc = "decoded"
  /\ call.stage = "with_params"
  /\ call.xid = PING_XID
  /\ call.ok
  /\ call.msg.cls = "PingReply"
  /\ DOMAIN requests_xids = {PING_XID, WATCH_XID}

\* C3 as stated: a decoded WatchEvent and a decoded ConnectReply both carry
\* xid -1 and zxid -1.
C3_Original ==
  call.ok /\ call.msg.cls \in {"WatchEvent", "ConnectReply"}
    => call.msg.xid = -1 /\ call.msg.zxid = LongOf(-1)

\* C3 amended: a decoded WatchEvent carries xid -1 and zxid -1, a decoded
\* ConnectReply carries xid 0 and zxid -1, and both carry error 0, whatever
\* the payload holds in the header position.
C3_FixedIds ==
  /\ call.ok /\ call.msg.cls = "WatchEvent"
       => call.msg.xid = -1 /\ call.msg.zxid = LongOf(-1) /\ call.msg.error = 0
  /\ call.ok /\ call.msg.cls = "ConnectReply"
       => call.msg.xid = 0 /\ call.msg.zxid = LongOf(-1) /\ call.msg.error = 0

C3_Witness ==
  /\ call.ok
  /\ call.msg.cls = "ConnectReply"
  /\ call.msg.xid = 0
  /\ HeaderOf(call.data)[2] # LongOf(-1)
  /\ HeaderOf(call.data)[3] # 0

\* C4: when the header xid is no sentinel and the table has no entry under
\* it, or has one whose opcode is not in the registry, from_payload raises
\* "No handler" and returns no message: no handler is guessed.
C4_Unresolved ==
  [][FromPayloadStep /\ HeaderRead(call'.data)
       /\ HeaderOf(call'.data)[1] \notin Sentinels
       /\ \/ HeaderOf(call'.data)[1] \notin DOMAIN requests_xids
          \/ requests_xids[HeaderOf(call'.data)[1]] \notin DOMAIN TYPES
       => /\ ~call'.ok
          /\ call'.exc = NoHandler
          /\ call'.handler = None]_vars

C4_Witness ==
  /\ pc = "decoded"
  /\ call.stage = "handler_for"
  /\ call.exc = NoHandler
  /\ call.request_type = "GETACL"

\* C5: a class statement whose opcode is already in the registry raises
\* ValueError and leaves the registry as it was; no step ever removes or
\* replaces a registry entry; once the module is loaded no from_payload
\* call (nor any other step) changes the registry.
C5_RegistryUnique ==
  /\ [][pc = "load" /\ declared'.OPCODE \in DOMAIN TYPES
          => declared'.raised = ValueError /\ TYPES' = TYPES]_vars
  /\ [][\A o \in DOMAIN TYPES : o \in DOMAIN TYPES' /\ TYPES'[o] = TYPES[o]]_vars
  /\ [][pc # "load" => TYPES' = TYPES]_vars

C5_Witness ==
  /\ pc = "aborted"
  /\ declared.name = "PingReply"
  /\ declared.raised = ValueError
  /\ TYPES["PING"] = "PingReply2"

\* C6: when the length prefix is <= 0, from_payload raises "Bad reply
\* length" before it reads the reply header or touches the table: no
\* message, no xid, the table unchanged.
C6_BadLength ==
  [][FromPayloadStep /\ read_number(call'.data, 0).ok
       /\ read_number(call'.data, 0).val <= 0
       => /\ ~call'.ok
          /\ call'.exc = BadReplyLength
          /\ call'.stage = "reply_size"
          /\ call'.handler = None
          /\ requests_xids' = requests_xids]_vars

C6_Witness ==
  /\ pc = "decoded"
  /\ call.stage = "reply_size"
  /\ read_reply_header(call.data, INT_STRUCT_size).ok
  /\ HeaderOf(call.data)[1] \in DOMAIN requests_xids

\* C7: for GetChildrenReply and GetChildren2Reply, a nonzero header error
\* gives count = 0 and a successful decode whatever follows the header (also
\* nothing); with error 0 the count is the 32-bit integer right after the
\* header (offset 20), and the decode fails when that integer is missing.
C7_ChildrenCount ==
  call.handler \in {"GetChildrenReply", "GetChildren2Reply"}
    => LET err == HeaderOf(call.data)[3]
           after == INT_STRUCT_size + 16
       IN /\ err # 0 => call.ok /\ call.msg.count = 0
          /\ err = 0 /\ Has(call.data, after, 4)
               => call.ok /\ call.msg.count = IntAt(call.data, after)
          /\ err = 0 /\ ~Has(call.data, after, 4) => ~call.ok

C7_Witness ==
  /\ call.ok
  /\ call.handler = "GetChildren2Reply"
  /\ call.msg.error # 0
  /\ Has(call.data, 20, 4)
  /\ IntAt(call.data, 20) # 0
  /\ call.msg.count = 0

\* the payload with the 32-bit length at `offset` replaced by 0
WithEmptyString(data, offset) ==
  SubSeq(data, 1, offset) \o EncInt(0) \o SubSeq(data, offset + 5, Len(data))

\* the message the handler builds from the payload whose string at `offset`
\* is replaced by the (valid) empty string
ValidSibling(c, offset) ==
  with_params(c.handler, c.xid, HeaderOf(c.data)[2], HeaderOf(c.data)[3],
              WithEmptyString(c.data, offset), INT_STRUCT_size + 16,
              c.msg.client, c.msg.server).msg

\* C8: a path whose declared length exceeds the maximum never makes
\* from_payload fail: a create reply with error 0 and a watch event decode,
\* their path is "path-too-long" and every other field is what the same
\* payload with a valid path gives; StringTooLong never reaches the caller.
C8_PathTooLong ==
  /\ ~call.ok => call.exc # StringTooLong
  /\ /\ call.handler \in {"CreateReply", "Create2Reply"}
     /\ HeaderOf(call.data)[3] = 0
     /\ Has(call.data, 20, 4)
     /\ IntAt(call.data, 20) > MaxStrLen
     => /\ call.ok
        /\ call.msg.path = PathTooLong
        /\ call.msg = [ValidSibling(call, 20) EXCEPT !.path = PathTooLong]
  /\ /\ call.handler = "WatchEvent"
     /\ Has(call.data, 28, 4)
     /\ IntAt(call.data, 28) > MaxStrLen
     => /\ call.ok
        /\ call.msg.path = PathTooLong
        /\ call.msg.event_type = IntAt(call.data, 20)
        /\ call.msg.state = IntAt(call.data, 24)
        /\ call.msg = [ValidSibling(call, 28) EXCEPT !.path = PathTooLong]

C8_Witness ==
  /\ call.ok
  /\ call.handler = "CreateReply"
  /\ Has(call.data, 20, 4)
  /\ IntAt(call.data, 20) > MaxStrLen
  /\ call.msg.path = PathTooLong
  /\ call.msg.xid = 1

\* the label the claim gives an event type
EventLabel(t) ==
  CASE t = -1 -> "None"
    [] t = 1 -> "NodeCreated"
    [] t = 2 -> "NodeDeleted"
    [] t = 3 -> "NodeDataChanged"
    [] t = 4 -> "NodeChildrenChanged"
    [] OTHER -> "UnknownWatchEvent"

ExpectedLabel(msg) ==
  IF msg.cls = "WatchEvent" THEN EventLabel(msg.event_type)
  ELSE IF msg.cls = "ConnectReply" /\ msg.timeout <= 0 THEN "SessionExpiration"
  ELSE IF msg.error # 0 THEN "Failed" \o msg.cls
  ELSE msg.cls

\* C9: the name of a decoded message depends only on its class and fields:
\* the event type's label for a WatchEvent ("UnknownWatchEvent" for an
\* unknown type), "SessionExpiration" for a ConnectReply with timeout <= 0,
\* else the class name, prefixed with "Failed" exactly when error # 0;
\* reading the name changes neither the message nor the table.
C9_Label ==
  /\ [](pc = "named" => label = ExpectedLabel(call.msg))
  /\ [][pc = "decoded" /\ pc' = "named"
          => call' = call /\ requests_xids' = requests_xids]_vars

C9_Witness ==
  /\ pc = "named"
  /\ call.msg.cls = "ConnectReply"
  /\ call.msg.timeout = 0
  /\ HeaderOf(call.data)[3] # 0
  /\ label = "SessionExpiration"

\* C10 as stated: a from_payload call that fails leaves the table equal to
\* the table before the call.
C10_Original ==
  [][FromPayloadStep /\ ~call'.ok => requests_xids' = requests_xids]_vars

\* C10 amended: a from_payload call that fails before the lookup (length
\* prefix <= 0 or unreadable, header truncated) or whose header xid is a
\* sentinel leaves the table unchanged; a call that fails at or after the
\* lookup of a non-sentinel xid has removed the entry under that xid, if
\* there was one, and leaves every other entry unchanged.
C10_FailureEffect ==
  [][FromPayloadStep /\ ~call'.ok
       => IF HeaderRead(call'.data) /\ HeaderOf(call'.data)[1] \notin Sentinels
            THEN requests_xids' = Without(requests_xids, HeaderOf(call'.data)[1])
            ELSE requests_xids' = requests_xids]_vars

C10_Witness ==
  /\ pc = "decoded"
  /\ ~call.ok
  /\ call.stage = "with_params"
  /\ call.xid \notin Sentinels
  /\ call.xid \notin DOMAIN requests_xids
  /\ DOMAIN requests_xids # {}

====
